---- MODULE Spec2Model ----
(***************************************************************************)
(* A model of air2neo (src/air2neo/main.py): the column classifier, the    *)
(* row splitter and the ingest job run_airtable_to_neo4j_ingest_job.       *)
(*                                                                         *)
(* Python values are represented as follows.                               *)
(*   str        a sequence of one-character strings, <<"A","_","b">>       *)
(*   dict key   a record [type |-> "str", s |-> <chars>] or, for a key     *)
(*              that is not a str, [type |-> "int", s |-> <<>>]            *)
(*   dict       a sequence of [k |-> key, v |-> value] with distinct keys, *)
(*              in insertion order (Python dicts keep insertion order)     *)
(*   cell value [kind |-> "list", items |-> <<strs>>] for a list of str,   *)
(*              [kind |-> "str", items |-> <<one-character strs>>] for a   *)
(*              scalar str; items is what iterating the value yields       *)
(*   createdTime, table names, exception names: atomic strings             *)
(***************************************************************************)
EXTENDS Integers, Sequences, FiniteSets, TLC

(* ------------------------------ bounds --------------------------------- *)
\* longest column name enumerated
MaxLen == 4
\* number of consecutive runs of the job against the same source
MaxRuns == 2

(* --------------------------- Python strings ---------------------------- *)
Upper == {"A", "B"}
Lower == {"b"}
Uncased == {"_", "1"}
Chars == Upper \cup Lower \cup Uncased

SeqsUpTo(S, n) == UNION {[1..m -> S] : m \in 0..n}

StrKey(s) == [type |-> "str", s |-> s]
IntKey == [type |-> "int", s |-> <<>>]

\* isinstance(column_name, str)
isinstance_str(k) == k.type = "str"

\* str.startswith(p) for a one-character p
startswith(s, c) == Len(s) >= 1 /\ s[1] = c

\* str.isupper(): at least one cased character and no lowercase character
isupper(s) ==
    /\ \E i \in 1..Len(s) : s[i] \in Upper \cup Lower
    /\ \A i \in 1..Len(s) : s[i] \notin Lower

\* str.split('__'): scan left to right, cutting at each non-overlapping
\* occurrence of the separator; acc is the piece being read
RECURSIVE split_scan(_, _, _, _)
split_scan(s, i, acc, out) ==
    IF i > Len(s) THEN Append(out, acc)
    ELSE IF i < Len(s) /\ s[i] = "_" /\ s[i + 1] = "_"
         THEN split_scan(s, i + 2, <<>>, Append(out, acc))
         ELSE split_scan(s, i + 1, Append(acc, s[i]), out)

split_dunder(s) == split_scan(s, 1, <<>>, <<>>)

\* a str as a cell value, and the str a scalar cell value holds
Str(s) == [kind |-> "str", items |-> [i \in 1..Len(s) |-> <<s[i]>>]]
List(items) == [kind |-> "list", items |-> items]
\* a cell that holds a number: not iterable
Num == [kind |-> "num", items |-> <<>>]
Text(v) == [i \in 1..Len(v.items) |-> v.items[i][1]]

(* ------------------------- column classifier --------------------------- *)
keep_col_cond_all(column_name) ==
    IF ~isinstance_str(column_name) THEN FALSE
    ELSE TRUE

keep_col_cond(column_name) ==
    IF ~isinstance_str(column_name) THEN FALSE
    ELSE ~startswith(column_name.s, "_")

edge_col_cond_allupper(column_name) ==
    IF ~isinstance_str(column_name) THEN FALSE
    ELSE /\ Len(column_name.s) >= 1
         /\ \A i \in 1..Len(column_name.s) : column_name.s[i] \in Upper

edge_col_cond(column_name) ==
    IF ~isinstance_str(column_name) THEN FALSE
    ELSE isupper(column_name.s)

prop_col_cond_lower(column_name) ==
    IF ~isinstance_str(column_name) THEN FALSE
    ELSE \E i \in 1..Len(column_name.s) : column_name.s[i] \in Lower

prop_col_cond(column_name) ==
    IF ~isinstance_str(column_name) THEN FALSE
    ELSE ~edge_col_cond(column_name)

format_edge_col_last(col) == split_dunder(col)[Len(split_dunder(col))]

\* col.split('__')[0]
format_edge_col(col) == split_dunder(col)[1]

\* The ColumnKind of spec section 4.1 as the splitter applies the three
\* predicates: dropped unless kept, then Edge or Property
classify(k) ==
    IF ~keep_col_cond(k) THEN "Ignored"
    ELSE IF edge_col_cond(k) THEN "Edge"
    ELSE IF prop_col_cond(k) THEN "Property"
    ELSE "None"

(* ------------------------------- dicts --------------------------------- *)
Keys(d) == {d[i].k : i \in 1..Len(d)}
HasKey(d, key) == \E i \in 1..Len(d) : d[i].k = key
Get(d, key) == d[CHOOSE i \in 1..Len(d) : d[i].k = key].v

\* d[key] = value: an existing key keeps its position, a new one is appended
SetItem(d, key, value) ==
    IF HasKey(d, key)
    THEN [i \in 1..Len(d) |->
            IF d[i].k = key THEN [k |-> key, v |-> value] ELSE d[i]]
    ELSE Append(d, [k |-> key, v |-> value])

(* ----------------------------- row splitter ---------------------------- *)
\* a Series field that the row does not have
NoColumn == "<no column>"
\* what DataFrame(table.all()) holds for a record without createdTime when
\* other records of the table have one: NaN, which is truthy
NaN == "nan"

\* {k: v for k, v in row['fields'].items() if keep_col_cond(k)}
RECURSIVE kept_fields(_, _)
kept_fields(fields, n) ==
    IF n = 0 THEN <<>>
    ELSE IF keep_col_cond(fields[n].k)
         THEN SetItem(kept_fields(fields, n - 1), fields[n].k, fields[n].v)
         ELSE kept_fields(fields, n - 1)

\* {format_edge_col(k): v for k, v in row['fields'].items() if edge_col_cond(k)}
RECURSIVE edges_of(_, _)
edges_of(fields, n) ==
    IF n = 0 THEN <<>>
    ELSE IF edge_col_cond(fields[n].k)
         THEN SetItem(edges_of(fields, n - 1),
                      format_edge_col(fields[n].k.s), fields[n].v)
         ELSE edges_of(fields, n - 1)

\* {k: v for k, v in row['fields'].items() if prop_col_cond(k)}
RECURSIVE props_of(_, _)
props_of(fields, n) ==
    IF n = 0 THEN <<>>
    ELSE IF prop_col_cond(fields[n].k)
         THEN SetItem(props_of(fields, n - 1), fields[n].k, fields[n].v)
         ELSE props_of(fields, n - 1)

\* _split_node_edge(row): the row after the call, or the exception raised.
\* createdTime is deleted only when it is truthy; reading it raises KeyError
\* when the row has no such field.
_split_node_edge(row) ==
    LET kept == kept_fields(row.fields, Len(row.fields))
        edges == edges_of(kept, Len(kept))
        props == props_of(kept, Len(kept))
    IN  IF row.createdTime = NoColumn
        THEN [raised |-> "KeyError", id |-> row.id, createdTime |-> NoColumn,
              edges |-> edges, props |-> props]
        ELSE [raised |-> "", id |-> row.id,
              createdTime |-> IF row.createdTime # "" THEN NoColumn
                              ELSE row.createdTime,
              edges |-> edges, props |-> props]

(* --------------------------- configuration ----------------------------- *)
airtable_id_col == StrKey(<<"_", "a", "i", "d">>)
edge_source == "source"
edge_target == "target"
edge_label == "label"

(* ------------------------------ the store ------------------------------ *)
\* A node is [nid, label, aid, props]: nid is the store's own identity of the
\* node, aid the value of its identifier property, props its property map
\* (a set of [k, v]); a placeholder node has label NoLabel. A relationship
\* is [src, label, dst] over nids.
NoLabel == "<no label>"

PropMap(d) == {[k |-> d[i].k, v |-> d[i].v] : i \in 1..Len(d)}
AidOf(d) == Text(Get(d, airtable_id_col))

EmptyStore == [nodes |-> {}, rels |-> {}, constraints |-> {}, nextId |-> 1]

nuke_query_rels_only(st) == [st EXCEPT !.rels = {}]

\* 'MATCH (n) DETACH DELETE n'
nuke_query(st) == [st EXCEPT !.nodes = {}, !.rels = {}]

\* MERGE (n:label {_aid: node._aid}) SET n = node, for one node
merge_node(st, label, node) ==
    LET hit == {n \in st.nodes : n.label = label /\ n.aid = AidOf(node)}
    IN  IF hit # {}
        THEN [st EXCEPT !.nodes =
                (st.nodes \ hit) \cup
                {[n EXCEPT !.props = PropMap(node)] : n \in hit}]
        ELSE [st EXCEPT !.nodes = st.nodes \cup
                {[nid |-> st.nextId, label |-> label, aid |-> AidOf(node),
                  props |-> PropMap(node)]},
              !.nextId = st.nextId + 1]

\* batch_create_node(tx, label, node_list) applied to the first n nodes
RECURSIVE batch_create_node_upto(_, _, _, _)
batch_create_node_upto(st, label, node_list, n) ==
    IF n = 0 THEN st
    ELSE merge_node(batch_create_node_upto(st, label, node_list, n - 1),
                    label, node_list[n])

batch_create_node(st, label, node_list) ==
    batch_create_node_upto(st, label, node_list, Len(node_list))

\* create_constraint_for(tx, label, constraint)
create_constraint_for(st, label, constraint) ==
    [st EXCEPT !.constraints = st.constraints \cup {<<label, constraint>>}]

\* the nodes an identifier resolves to, whatever their label
Resolve(st, aid) == {n \in st.nodes : n.aid = aid}

\* an endpoint that resolves to no node gets a minimal placeholder
ensure_endpoint(st, aid) ==
    IF Resolve(st, aid) # {} THEN st
    ELSE [st EXCEPT !.nodes = st.nodes \cup
            {[nid |-> st.nextId, label |-> NoLabel, aid |-> aid,
              props |-> {[k |-> airtable_id_col, v |-> Str(aid)]}]},
          !.nextId = st.nextId + 1]

\* merge of one relationship source -[label]-> target by identifier
merge_edge(st, edge) ==
    LET st2 == ensure_endpoint(ensure_endpoint(st, edge[edge_source]),
                               edge[edge_target])
    IN  [st2 EXCEPT !.rels = st2.rels \cup
            {[src |-> a.nid, label |-> edge[edge_label], dst |-> b.nid] :
                a \in Resolve(st2, edge[edge_source]),
                b \in Resolve(st2, edge[edge_target])}]

\* batch_create_edge(tx, edge_list) applied to the first n edges
RECURSIVE batch_create_edge_upto(_, _, _)
batch_create_edge_upto(st, edge_list, n) ==
    IF n = 0 THEN st
    ELSE merge_edge(batch_create_edge_upto(st, edge_list, n - 1), edge_list[n])

batch_create_edge(st, edge_list) ==
    batch_create_edge_upto(st, edge_list, Len(edge_list))

(* --------------------------- the job's helpers ------------------------- *)
\* make_node_list(row): row['props'] with the identifier added; the dict is
\* row['props'] itself, so the row's props carry the identifier afterwards
make_node_list(row) == SetItem(row.props, airtable_id_col, Str(row.id))

\* the edges of one (label, value) item of one row, one per element of v
edges_of_item(id, k, v) ==
    [n \in 1..Len(v.items) |->
        (edge_source :> id) @@ (edge_target :> v.items[n]) @@ (edge_label :> k)]

\* the edges of the first n items of row['edges']
RECURSIVE edges_of_row(_, _)
edges_of_row(row, n) ==
    IF n = 0 THEN <<>>
    ELSE edges_of_row(row, n - 1) \o
         edges_of_item(row.id, row.edges[n].k, row.edges[n].v)

\* edge_list after the first n rows of df
RECURSIVE make_edge_list(_, _)
make_edge_list(df, n) ==
    IF n = 0 THEN <<>>
    ELSE make_edge_list(df, n - 1) \o edges_of_row(df[n], Len(df[n].edges))

(* ------------------------------ the inputs ----------------------------- *)
R1 == <<"r", "1">>
R2 == <<"r", "2">>
R3 == <<"r", "3">>
R4 == <<"r", "4">>
R9 == <<"r", "9">>

cName == StrKey(<<"b">>)
cFRIENDS == StrKey(<<"A">>)
cFRIENDS_w == StrKey(<<"A", "_", "_", "B">>)
cHidden == StrKey(<<"_", "b">>)

Item(key, value) == [k |-> key, v |-> value]

\* the field dicts a source row may carry
FieldsPool ==
    { <<Item(cName, Str(<<"A", "d", "a">>))>>,
      <<Item(cName, Str(<<"B", "o", "b">>)), Item(cFRIENDS, List(<<R1, R3>>))>>,
      <<Item(cHidden, Str(<<"x">>)), Item(airtable_id_col, Str(<<"z">>)),
        Item(cFRIENDS, List(<<R9>>))>>,
      <<Item(cFRIENDS, Str(R1))>>,
      <<Item(cFRIENDS, List(<<R2>>)), Item(cFRIENDS_w, List(<<R3>>))>> }

Row(id, fields) == [id |-> id, createdTime |-> "2021-05-01", fields |-> fields]

\* a record as table.all() returns it, with any createdTime; NoIdColumn
\* stands for the id of a record that has none
RowOf(id, createdTime, fields) ==
    [id |-> id, createdTime |-> createdTime, fields |-> fields]
NoIdColumn == <<"<no column>">>
PlainFields == <<Item(cName, Str(<<"A", "d", "a">>))>>

SecondRowPool ==
    { <<Item(cName, Str(<<"A", "d", "a">>))>>,
      <<Item(cName, Str(<<"B", "o", "b">>)), Item(cFRIENDS, List(<<R1, R3>>))>> }
PetsPool ==
    { <<Item(cName, Str(<<"A", "d", "a">>))>>,
      <<Item(cHidden, Str(<<"x">>)), Item(cFRIENDS, List(<<R9>>))>>,
      <<Item(cFRIENDS, List(<<R2>>)), Item(cFRIENDS_w, List(<<R3>>))>>,
      <<Item(cName, Str(<<"A", "d", "a">>)), Item(cFRIENDS, Num)>> }

PeopleRows ==
    {<<>>} \cup {<<Row(R1, f)>> : f \in FieldsPool}
           \cup {<<Row(R1, f), Row(R2, g)>> : f \in FieldsPool,
                                              g \in SecondRowPool}
\* the second table may also hold a lone record without an id or without a
\* createdTime (a frame gets a column only from the records that have it),
\* or a record without createdTime after one that has it (NaN in the frame)
PetsRows ==
    {<<>>} \cup {<<Row(R3, f)>> : f \in PetsPool}
           \cup {<<RowOf(NoIdColumn, "2021-05-01", PlainFields)>>,
                 <<RowOf(R3, NoColumn, PlainFields)>>,
                 <<Row(R3, PlainFields), RowOf(R4, NaN, PlainFields)>>}

\* the Airtable base: the tables the reference table lists, with their rows
Sources ==
    {<<>>} \cup {<<[name |-> "People", rows |-> p]>> : p \in PeopleRows}
           \cup {<<[name |-> "People", rows |-> p],
                   [name |-> "Pets", rows |-> q]>> :
                    p \in PeopleRows, q \in PetsRows}

\* what the store may hold before the first run
OldStore ==
    [nodes |-> {[nid |-> 1, label |-> "Old", aid |-> R9,
                 props |-> {[k |-> airtable_id_col, v |-> Str(R9)]}],
                [nid |-> 2, label |-> "People", aid |-> R1,
                 props |-> {[k |-> cName, v |-> Str(<<"O", "l", "d">>)],
                            [k |-> airtable_id_col, v |-> Str(R1)]}]},
     rels |-> {[src |-> 1, label |-> <<"B">>, dst |-> 2]},
     constraints |-> {},
     nextId |-> 3]
InitStores == {EmptyStore, OldStore}

(* ------------------------------- state --------------------------------- *)
VARIABLES
    source,     \* the Airtable base (never written by the job)
    store,      \* the committed content of the Neo4j database
    run,        \* number of the current run of the job
    nuke,       \* the nuke argument of the current run
    pc,         \* position of the current run in the function body
    exc,        \* the exception that ended the run, "" if none
    i,          \* index of the table the current loop is at
    raw,        \* table.all() of the table being downloaded
    dfs,        \* dfs: a sequence of [name, df]
    node_list,  \* node_list of the table at hand
    edge_list,  \* edge_list of the table at hand
    tx,         \* the open transaction: [open, st], st its uncommitted view
    log,        \* history: the store operations of the current run, in order
    store0,     \* history: the store when the current run started
    prevDone,   \* history: [valid, nuke, st], the store as the previous
                \* run left it when that run completed
    probe       \* the last pure function applied: [op, in, out]

vars == <<source, store, run, nuke, pc, exc, i, raw, dfs, node_list,
          edge_list, tx, log, store0, prevDone, probe>>

NoTx == [open |-> FALSE, st |-> EmptyStore]
Begin(st) == [open |-> TRUE, st |-> st]
NoProbe == [op |-> "none"]
Event(unit, table, ev) == [unit |-> unit, table |-> table, ev |-> ev]

Init ==
    /\ source \in Sources
    /\ store \in InitStores
    /\ run = 1
    /\ nuke \in BOOLEAN
    /\ pc = "start"
    /\ exc = ""
    /\ i = 1
    /\ raw = <<>>
    /\ dfs = <<>>
    /\ node_list = <<>>
    /\ edge_list = <<>>
    /\ tx = NoTx
    /\ log = <<>>
    /\ store0 = store
    /\ prevDone = [valid |-> FALSE, nuke |-> FALSE, st |-> EmptyStore]
    /\ probe = NoProbe

NTables == Len(source)
TableName == dfs[i].name

\* an exception leaves the function: pc and exc record it
Raise(e) == pc' = "aborted" /\ exc' = e

(* ---------------------- fetch and transform (136-176) ------------------ *)
Start_nuke_first ==
    /\ pc = "start"
    /\ pc' = IF NTables = 0 THEN "session" ELSE "fetch"
    /\ i' = 1
    /\ store' = IF nuke THEN nuke_query(store) ELSE store
    /\ log' = IF nuke THEN Append(log, Event("wipe", "", "commit")) ELSE log
    /\ UNCHANGED <<source, run, nuke, exc, raw, dfs, node_list,
                   edge_list, tx, store0, prevDone, probe>>

\* lines 136-146 and the head of the loop at 173
Start ==
    /\ pc = "start"
    /\ pc' = IF NTables = 0 THEN "session" ELSE "fetch"
    /\ i' = 1
    /\ UNCHANGED <<source, store, run, nuke, exc, raw, dfs, node_list,
                   edge_list, tx, log, store0, prevDone, probe>>

\* line 141: ref_table.all() raises
ListTablesFails ==
    /\ pc = "start"
    /\ Raise("SourceFetchError")
    /\ UNCHANGED <<source, store, run, nuke, i, raw, dfs, node_list,
                   edge_list, tx, log, store0, prevDone, probe>>

\* line 160: table.all()
Fetch ==
    /\ pc = "fetch"
    /\ raw' = source[i].rows
    /\ pc' = "transform"
    /\ UNCHANGED <<source, store, run, nuke, exc, i, dfs, node_list,
                   edge_list, tx, log, store0, prevDone, probe>>

\* line 160: table.all() raises
FetchFails ==
    /\ pc = "fetch"
    /\ Raise("SourceFetchError")
    /\ UNCHANGED <<source, store, run, nuke, i, raw, dfs, node_list,
                   edge_list, tx, log, store0, prevDone, probe>>

\* lines 163-164 and 174: df.apply(_split_node_edge, axis=1), dfs.append
Transform ==
    /\ pc = "transform"
    /\ LET df == [j \in 1..Len(raw) |-> _split_node_edge(raw[j])]
           bad == {j \in 1..Len(raw) : df[j].raised # ""}
       IN  IF bad # {}
           THEN /\ Raise(df[CHOOSE j \in bad : \A m \in bad : j <= m].raised)
                /\ UNCHANGED <<i, dfs>>
           ELSE /\ dfs' = Append(dfs, [name |-> source[i].name, df |-> df])
                /\ i' = IF i < NTables THEN i + 1 ELSE 1
                /\ pc' = IF i < NTables THEN "fetch" ELSE "session"
                /\ exc' = exc
    /\ raw' = <<>>
    /\ UNCHANGED <<source, store, run, nuke, node_list, edge_list, tx, log,
                   store0, prevDone, probe>>

(* ------------------------ the session (178-247) ------------------------ *)
\* The two loops of the session: `for table, df in dfs` at line 190 runs
\* the node merge and the constraint of every table, and only then the one
\* at line 225 runs the edge merge of every table. after_unit gives the
\* position that follows the last unit of the table at index n.
after_unit_one_loop(unit, n) ==
    IF unit = "constraint" THEN [pc |-> "edge_list", i |-> n]
    ELSE IF n < NTables THEN [pc |-> "node_list", i |-> n + 1]
    ELSE [pc |-> "close", i |-> 1]

after_unit(unit, n) ==
    IF unit = "constraint"
    THEN IF n < NTables THEN [pc |-> "node_list", i |-> n + 1]
         ELSE [pc |-> "edge_list", i |-> 1]
    ELSE IF n < NTables THEN [pc |-> "edge_list", i |-> n + 1]
         ELSE [pc |-> "close", i |-> 1]

OpenSession_always_nuke ==
    /\ pc = "session"
    /\ pc' = "nuke"
    /\ i' = 1
    /\ UNCHANGED <<source, store, run, nuke, exc, raw, dfs, node_list,
                   edge_list, tx, log, store0, prevDone, probe>>

\* lines 178-185: the driver, the session and the test of nuke
OpenSession ==
    /\ pc = "session"
    /\ pc' = IF nuke THEN "nuke"
             ELSE IF NTables = 0 THEN "close" ELSE "node_list"
    /\ i' = 1
    /\ UNCHANGED <<source, store, run, nuke, exc, raw, dfs, node_list,
                   edge_list, tx, log, store0, prevDone, probe>>

\* lines 186-187: session.run('MATCH (n) DETACH DELETE n'), auto-committed
Nuke ==
    /\ pc = "nuke"
    /\ store' = nuke_query(store)
    /\ log' = Append(log, Event("wipe", "", "commit"))
    /\ pc' = IF NTables = 0 THEN "close" ELSE "node_list"
    /\ UNCHANGED <<source, run, nuke, exc, i, raw, dfs, node_list,
                   edge_list, tx, store0, prevDone, probe>>

\* line 187 raises: nothing is deleted
NukeFails ==
    /\ pc = "nuke"
    /\ log' = Append(log, Event("wipe", "", "fail"))
    /\ Raise("StoreWriteError")
    /\ UNCHANGED <<source, store, run, nuke, i, raw, dfs, node_list,
                   edge_list, tx, store0, prevDone, probe>>

\* lines 200-202: node_list = df.apply(make_node_list, axis=1).to_list(),
\* then begin_transaction. On a frame without rows apply returns a frame,
\* which has no to_list: AttributeError. make_node_list writes the
\* identifier into each row's props; row['id'] raises KeyError on a frame
\* without an id column.
MakeNodeList ==
    /\ pc = "node_list"
    /\ LET df == dfs[i].df
       IN  IF Len(df) = 0
           THEN /\ Raise("AttributeError")
                /\ UNCHANGED <<dfs, node_list, tx, log>>
           ELSE IF \A j \in 1..Len(df) : df[j].id = NoIdColumn
           THEN /\ Raise("KeyError")
                /\ UNCHANGED <<dfs, node_list, tx, log>>
           ELSE /\ node_list' = [j \in 1..Len(df) |-> make_node_list(df[j])]
                /\ dfs' = [dfs EXCEPT ![i].df =
                            [j \in 1..Len(df) |->
                                [df[j] EXCEPT !.props = make_node_list(df[j])]]]
                /\ tx' = Begin(store)
                /\ log' = Append(log, Event("nodes", TableName, "begin"))
                /\ pc' = "node_run"
                /\ exc' = exc
    /\ UNCHANGED <<source, store, run, nuke, i, raw, edge_list, store0,
                   prevDone, probe>>

\* line 206: batch_create_node(tx, label=table, node_list=node_list)
RunNodeMerge ==
    /\ pc = "node_run"
    /\ tx' = [tx EXCEPT !.st = batch_create_node(tx.st, TableName, node_list)]
    /\ pc' = "node_commit"
    /\ UNCHANGED <<source, store, run, nuke, exc, i, raw, dfs, node_list,
                   edge_list, log, store0, prevDone, probe>>

\* line 206 raises after merging only the first n nodes in the transaction
RunNodeMergeFails ==
    /\ pc = "node_run"
    /\ \E n \in 0..(Len(node_list) - 1) :
          tx' = [tx EXCEPT !.st =
                    batch_create_node_upto(tx.st, TableName, node_list, n)]
    /\ log' = Append(log, Event("nodes", TableName, "fail"))
    /\ pc' = "unwind"
    /\ UNCHANGED <<source, store, run, nuke, exc, i, raw, dfs, node_list,
                   edge_list, store0, prevDone, probe>>

\* lines 211-214: tx.commit(), tx.close(), then the next begin_transaction
CommitNodes ==
    /\ pc = "node_commit"
    /\ store' = tx.st
    /\ tx' = Begin(tx.st)
    /\ log' = Append(Append(log, Event("nodes", TableName, "commit")),
                     Event("constraint", TableName, "begin"))
    /\ pc' = "cons_run"
    /\ UNCHANGED <<source, run, nuke, exc, i, raw, dfs, node_list,
                   edge_list, store0, prevDone, probe>>

\* lines 217-219: create_constraint_for(tx, label=table, constraint=...)
RunConstraint ==
    /\ pc = "cons_run"
    /\ tx' = [tx EXCEPT !.st =
                create_constraint_for(tx.st, TableName, airtable_id_col)]
    /\ pc' = "cons_commit"
    /\ UNCHANGED <<source, store, run, nuke, exc, i, raw, dfs, node_list,
                   edge_list, log, store0, prevDone, probe>>

\* line 217 raises
RunConstraintFails ==
    /\ pc = "cons_run"
    /\ log' = Append(log, Event("constraint", TableName, "fail"))
    /\ pc' = "unwind"
    /\ UNCHANGED <<source, store, run, nuke, exc, i, raw, dfs, node_list,
                   edge_list, tx, store0, prevDone, probe>>

\* lines 221-222, and the loop at 190 or the one at 225
CommitConstraint ==
    /\ pc = "cons_commit"
    /\ store' = tx.st
    /\ tx' = NoTx
    /\ log' = Append(log, Event("constraint", TableName, "commit"))
    /\ i' = after_unit("constraint", i).i
    /\ pc' = after_unit("constraint", i).pc
    /\ UNCHANGED <<source, run, nuke, exc, raw, dfs, node_list, edge_list,
                   store0, prevDone, probe>>

\* a row of df has an Edge column whose value cannot be iterated
NotIterable(df) ==
    \E j \in 1..Len(df) : \E n \in 1..Len(df[j].edges) :
        df[j].edges[n].v.kind = "num"

MakeEdgeList_known_only ==
    /\ pc = "edge_list"
    /\ IF NotIterable(dfs[i].df)
       THEN /\ Raise("TypeError")
            /\ UNCHANGED <<edge_list, tx, log>>
       ELSE /\ edge_list' =
                    SelectSeq(make_edge_list(dfs[i].df, Len(dfs[i].df)),
                              LAMBDA e : Resolve(store, e[edge_target]) # {})
            /\ tx' = Begin(store)
            /\ log' = Append(log, Event("edges", TableName, "begin"))
            /\ pc' = "edge_run"
            /\ exc' = exc
    /\ UNCHANGED <<source, store, run, nuke, i, raw, dfs, node_list,
                   store0, prevDone, probe>>

\* lines 226-239: edge_list of the table, then begin_transaction. The
\* `for v_ in v` of line 230 raises TypeError on a value that is a number.
MakeEdgeList ==
    /\ pc = "edge_list"
    /\ IF NotIterable(dfs[i].df)
       THEN /\ Raise("TypeError")
            /\ UNCHANGED <<edge_list, tx, log>>
       ELSE /\ edge_list' = make_edge_list(dfs[i].df, Len(dfs[i].df))
            /\ tx' = Begin(store)
            /\ log' = Append(log, Event("edges", TableName, "begin"))
            /\ pc' = "edge_run"
            /\ exc' = exc
    /\ UNCHANGED <<source, store, run, nuke, i, raw, dfs, node_list,
                   store0, prevDone, probe>>

\* line 240: batch_create_edge(tx, edge_list=edge_list)
RunEdgeMerge ==
    /\ pc = "edge_run"
    /\ tx' = [tx EXCEPT !.st = batch_create_edge(tx.st, edge_list)]
    /\ pc' = "edge_commit"
    /\ UNCHANGED <<source, store, run, nuke, exc, i, raw, dfs, node_list,
                   edge_list, log, store0, prevDone, probe>>

\* line 240 raises after merging only the first n edges in the
\* transaction; with an empty edge_list the call is still made
RunEdgeMergeFails ==
    /\ pc = "edge_run"
    /\ \E n \in {0} \cup 0..(Len(edge_list) - 1) :
          tx' = [tx EXCEPT !.st = batch_create_edge_upto(tx.st, edge_list, n)]
    /\ log' = Append(log, Event("edges", TableName, "fail"))
    /\ pc' = "unwind"
    /\ UNCHANGED <<source, store, run, nuke, exc, i, raw, dfs, node_list,
                   edge_list, store0, prevDone, probe>>

\* lines 241-245, and the loop at 225
CommitEdges ==
    /\ pc = "edge_commit"
    /\ store' = tx.st
    /\ tx' = NoTx
    /\ log' = Append(log, Event("edges", TableName, "commit"))
    /\ i' = after_unit("edges", i).i
    /\ pc' = after_unit("edges", i).pc
    /\ UNCHANGED <<source, run, nuke, exc, raw, dfs, node_list, edge_list,
                   store0, prevDone, probe>>

\* tx.commit() raises at line 211, 221 or 241: nothing is committed
CommitFails ==
    /\ pc \in {"node_commit", "cons_commit", "edge_commit"}
    /\ log' = Append(log, Event(
                CASE pc = "node_commit" -> "nodes"
                  [] pc = "cons_commit" -> "constraint"
                  [] OTHER -> "edges", TableName, "fail"))
    /\ pc' = "unwind"
    /\ UNCHANGED <<source, store, run, nuke, exc, i, raw, dfs, node_list,
                   edge_list, tx, store0, prevDone, probe>>

Unwind_commit ==
    /\ pc = "unwind"
    /\ store' = tx.st
    /\ tx' = NoTx
    /\ Raise("StoreWriteError")
    /\ UNCHANGED <<source, run, nuke, i, raw, dfs, node_list,
                   edge_list, log, store0, prevDone, probe>>

\* the exception leaves the with block of lines 202, 214 or 239: the
\* transaction is closed without a commit, which rolls it back
Unwind ==
    /\ pc = "unwind"
    /\ tx' = NoTx
    /\ Raise("StoreWriteError")
    /\ UNCHANGED <<source, store, run, nuke, i, raw, dfs, node_list,
                   edge_list, log, store0, prevDone, probe>>

\* lines 247-250: driver.close() and the return
Finish ==
    /\ pc = "close"
    /\ pc' = "done"
    /\ UNCHANGED <<source, store, run, nuke, exc, i, raw, dfs, node_list,
                   edge_list, tx, log, store0, prevDone, probe>>

\* the job is called again on the same base, with either value of nuke
NewRun ==
    /\ pc \in {"done", "aborted"}
    /\ run < MaxRuns
    /\ run' = run + 1
    /\ nuke' \in BOOLEAN
    /\ pc' = "start"
    /\ exc' = ""
    /\ i' = 1
    /\ raw' = <<>>
    /\ dfs' = <<>>
    /\ node_list' = <<>>
    /\ edge_list' = <<>>
    /\ log' = <<>>
    /\ store0' = store
    /\ prevDone' = [valid |-> pc = "done", nuke |-> nuke, st |-> store]
    /\ UNCHANGED <<source, store, tx, probe>>

Next ==
    \/ Start \/ ListTablesFails \/ Fetch \/ FetchFails \/ Transform
    \/ OpenSession \/ Nuke \/ NukeFails
    \/ MakeNodeList \/ RunNodeMerge \/ RunNodeMergeFails \/ CommitNodes
    \/ RunConstraint \/ RunConstraintFails \/ CommitConstraint
    \/ MakeEdgeList \/ RunEdgeMerge \/ RunEdgeMergeFails \/ CommitEdges
    \/ CommitFails \/ Unwind \/ Finish \/ NewRun

Spec == Init /\ [][Next]_vars

(* ------------------- the pure functions, applied alone ----------------- *)
Names == SeqsUpTo(Chars, MaxLen)
ColumnKeys == {StrKey(s) : s \in Names} \cup {IntKey}

\* a second column beside an arbitrary first one
SecondKeys ==
    {IntKey} \cup
    {StrKey(s) : s \in {<<"A">>, <<"A", "_", "_", "B">>, <<"A", "_", "_", "b">>,
                        <<"b">>, <<"_", "A">>, <<"1">>}}
ProbeValues == {List(<<R1, R2>>), Str(<<"x">>)}
\* the field dict of a row to split: the column k alone, or k with the
\* column k2 after it or before it
ProbeShapes == {"alone", "first", "second"}
ProbeFields(k, v, k2, shape) ==
    CASE shape = "alone" -> <<Item(k, v)>>
      [] shape = "first" -> <<Item(k, v), Item(k2, List(<<R3>>))>>
      [] OTHER -> <<Item(k2, List(<<R3>>)), Item(k, v)>>

InitPure ==
    /\ source = <<>>
    /\ store = EmptyStore
    /\ run = 1
    /\ nuke = FALSE
    /\ pc = "idle"
    /\ exc = ""
    /\ i = 1
    /\ raw = <<>>
    /\ dfs = <<>>
    /\ node_list = <<>>
    /\ edge_list = <<>>
    /\ tx = NoTx
    /\ log = <<>>
    /\ store0 = EmptyStore
    /\ prevDone = [valid |-> FALSE, nuke |-> FALSE, st |-> EmptyStore]
    /\ probe = NoProbe

jobVars == <<source, store, run, nuke, pc, exc, i, raw, dfs, node_list,
             edge_list, tx, log, store0, prevDone>>

\* the three predicates on one column key
Classify ==
    /\ probe.op = "none"
    /\ \E k \in ColumnKeys :
          probe' = [op |-> "classify", in |-> k,
                    out |-> [keep |-> keep_col_cond(k),
                             edge |-> edge_col_cond(k),
                             prop |-> prop_col_cond(k),
                             kind |-> classify(k)]]
    /\ UNCHANGED jobVars

\* format_edge_col on one name
FormatEdgeCol ==
    /\ probe.op = "none"
    /\ \E s \in Names :
          probe' = [op |-> "format", in |-> s, out |-> format_edge_col(s)]
    /\ UNCHANGED jobVars

\* _split_node_edge on one row
Split ==
    /\ probe.op = "none"
    /\ \E k \in ColumnKeys, v \in ProbeValues, k2 \in SecondKeys,
          shape \in ProbeShapes :
          /\ k # k2
          /\ LET row == Row(R1, ProbeFields(k, v, k2, shape))
             IN  probe' = [op |-> "split", in |-> row,
                           out |-> _split_node_edge(row)]
    /\ UNCHANGED jobVars

\* _split_node_edge on a row with or without a createdTime
CreatedTimes == {"2021-05-01", "", NaN, NoColumn}
SplitCreated ==
    /\ probe.op = "none"
    /\ \E f \in FieldsPool, ct \in CreatedTimes :
          LET row == RowOf(R1, ct, f)
          IN  probe' = [op |-> "split", in |-> row,
                        out |-> _split_node_edge(row)]
    /\ UNCHANGED jobVars

NextPure == Classify \/ FormatEdgeCol \/ Split \/ SplitCreated

SpecPure == InitPure /\ [][NextPure]_vars

(* ======================================================================= *)
(* Properties of the classifier and the splitter (under SpecPure)          *)
(* ======================================================================= *)
HasUpper(s) == \E n \in 1..Len(s) : s[n] \in Upper
HasLower(s) == \E n \in 1..Len(s) : s[n] \in Lower
AllUpper(s) == Len(s) >= 1 /\ \A n \in 1..Len(s) : s[n] \in Upper
IgnoredKey(k) == k.type # "str" \/ (Len(k.s) >= 1 /\ k.s[1] = "_")

\* the part of a name before the first "__", the whole name without one
DunderAt(s) == {n \in 1..(Len(s) - 1) : s[n] = "_" /\ s[n + 1] = "_"}
BeforeDunder(s) ==
    IF DunderAt(s) = {} THEN s
    ELSE SubSeq(s, 1, (CHOOSE n \in DunderAt(s) :
                          \A m \in DunderAt(s) : n <= m) - 1)

KeptCols(row) == {k \in Keys(row.fields) : ~IgnoredKey(k)}
\* the columns of the row that an entry of edges comes from
EdgeSourceCols(row, edges) ==
    {k \in KeptCols(row) :
        edge_col_cond(k) /\ HasKey(edges, format_edge_col(k.s))}

\* C7: after _split_node_edge the keys of props and the source columns of
\* edges together are the row's columns that are not Ignored, and no column
\* is in both.
C7_Partition ==
    probe.op = "split" =>
        LET P == Keys(probe.out.props)
            E == EdgeSourceCols(probe.in, probe.out.edges)
        IN  /\ P \cup E = KeptCols(probe.in)
            /\ P \cap E = {}

\* a row with one Edge column and one Property column was split
C7_Witness ==
    /\ probe.op = "split"
    /\ Len(probe.in.fields) = 2
    /\ Len(probe.out.props) = 1
    /\ Len(probe.out.edges) = 1

\* C8 as stated: not a str or starting with "_" is Ignored, else a name
\* whose every character is uppercase is Edge, anything else Property.
C8_KindAsStated(k) ==
    IF IgnoredKey(k) THEN "Ignored"
    ELSE IF AllUpper(k.s) THEN "Edge" ELSE "Property"

C8_Original ==
    probe.op = "classify" => probe.out.kind = C8_KindAsStated(probe.in)

\* C8 amended: the Edge test is str.isupper, which asks for at least one
\* uppercase character and no lowercase one, and lets digits and
\* underscores through.
C8_KindAmended(k) ==
    IF IgnoredKey(k) THEN "Ignored"
    ELSE IF HasUpper(k.s) /\ ~HasLower(k.s) THEN "Edge" ELSE "Property"

\* C8: classification is total and follows the amended decision order; a
\* kept column satisfies exactly one of edge_col_cond and prop_col_cond.
C8_Classification ==
    probe.op = "classify" =>
        /\ probe.out.kind = C8_KindAmended(probe.in)
        /\ probe.out.keep = (probe.out.kind # "Ignored")
        /\ probe.out.keep => (probe.out.edge # probe.out.prop)

\* a name with an uppercase letter, an underscore and a digit is Edge
C8_Witness ==
    /\ probe.op = "classify"
    /\ probe.in = StrKey(<<"A", "_", "1">>)
    /\ probe.out.kind = "Edge"

\* C9 as stated, with its example: a column named like FRIENDS__weight
\* (uppercase, separator, lowercase) gives the edge label before the "__".
C9_Original ==
    /\ probe.op = "format" => probe.out = BeforeDunder(probe.in)
    /\ probe.op = "split" =>
         (HasKey(probe.in.fields, StrKey(<<"A", "_", "_", "b">>))
            => HasKey(probe.out.edges, <<"A">>))

\* C9: format_edge_col gives the part of the name before the first "__",
\* and the labels of a split row are exactly those parts of its Edge
\* columns, whatever the values.
C9_EdgeLabel ==
    /\ probe.op = "format" => probe.out = BeforeDunder(probe.in)
    /\ probe.op = "split" =>
         Keys(probe.out.edges) =
            {BeforeDunder(k.s) :
                k \in {c \in KeptCols(probe.in) :
                          C8_KindAmended(c) = "Edge"}}

\* the column A__B alone in a row gave the label A
C9_Witness ==
    /\ probe.op = "split"
    /\ Keys(probe.in.fields) = {StrKey(<<"A", "_", "_", "B">>)}
    /\ Keys(probe.out.edges) = {<<"A">>}

(* ======================================================================= *)
(* Properties of the ingest job (under Spec)                               *)
(* ======================================================================= *)
Range(f) == {f[n] : n \in DOMAIN f}
InRun == pc \notin {"idle"}
Committed(unit, table) == Event(unit, table, "commit")
Before(ev, p) == \E q \in 1..(p - 1) : log[q] = ev

\* what the source yields for table t: the split rows, the node list and
\* the edge list
SrcDf(t) == [j \in 1..Len(source[t].rows) |->
                _split_node_edge(source[t].rows[j])]
SrcNodeList(t) == [j \in 1..Len(source[t].rows) |->
                    make_node_list(SrcDf(t)[j])]
SrcEdgeList(t) == make_edge_list(SrcDf(t), Len(SrcDf(t)))
SrcEdges == UNION {Range(SrcEdgeList(t)) : t \in 1..NTables}
SrcRowIds == UNION {{source[t].rows[j].id : j \in 1..Len(source[t].rows)} :
                        t \in 1..NTables}
TableIndex(name) == CHOOSE t \in 1..NTables : source[t].name = name

\* C1: no edge-merge transaction begins before the node merge of every
\* table has been committed.
C1_EdgesAfterAllNodes ==
    \A p \in 1..Len(log) :
        log[p].unit = "edges" =>
            \A t \in 1..NTables : Before(Committed("nodes", source[t].name), p)

\* a run over two tables completed with both edge batches committed
C1_Witness ==
    /\ pc = "done"
    /\ NTables = 2
    /\ \A t \in 1..NTables :
          \E p \in 1..Len(log) : log[p] = Committed("edges", source[t].name)

\* C2: for every table the constraint declaration is committed before the
\* table's node merge is executed.
C2_ConstraintFirst ==
    \A p \in 1..Len(log) :
        log[p].unit = "nodes" =>
            Before(Committed("constraint", log[p].table), p)

\* C3: with nuke the wipe precedes every other store operation of the run,
\* and when the run completes no node or relationship from before the run
\* is left: the store holds the graph of the source and nothing else.
NodeById(st, nid) == CHOOSE n \in st.nodes : n.nid = nid
NodeShapes(st) ==
    {[label |-> n.label, aid |-> n.aid, props |-> n.props] : n \in st.nodes}
RelShapes(st) ==
    {[src |-> NodeById(st, r.src).aid, label |-> r.label,
      dst |-> NodeById(st, r.dst).aid] : r \in st.rels}
FreshNodeShapes ==
    UNION {{[label |-> source[t].name, aid |-> source[t].rows[j].id,
             props |-> PropMap(SrcNodeList(t)[j])] :
                j \in 1..Len(source[t].rows)} : t \in 1..NTables}
    \cup {[label |-> NoLabel, aid |-> e[edge_target],
           props |-> {[k |-> airtable_id_col, v |-> Str(e[edge_target])]}] :
            e \in {x \in SrcEdges : x[edge_target] \notin SrcRowIds}}
FreshRelShapes ==
    {[src |-> e[edge_source], label |-> e[edge_label],
      dst |-> e[edge_target]] : e \in SrcEdges}

C3_NukeLeavesOnlyFreshGraph ==
    (InRun /\ nuke) =>
        /\ \A p \in 1..Len(log) :
              log[p].unit # "wipe" => Before(Committed("wipe", ""), p)
        /\ pc = "done" =>
              /\ \A n \in store.nodes : n.nid >= store0.nextId
              /\ \A r \in store.rels :
                    /\ r.src >= store0.nextId
                    /\ r.dst >= store0.nextId
              /\ NodeShapes(store) = FreshNodeShapes
              /\ RelShapes(store) = FreshRelShapes

\* a run with nuke completed on a store that held nodes and a relationship,
\* and ingested nodes and a relationship
C3_Witness ==
    /\ pc = "done"
    /\ nuke
    /\ store0.nodes # {}
    /\ store0.rels # {}
    /\ store.nodes # {}
    /\ store.rels # {}

\* C4: without nuke the wipe is never executed, and every node and
\* relationship the store held when the run started is in the store in
\* every state of the run.
C4_NoNukeKeepsStore ==
    (InRun /\ ~nuke) =>
        /\ \A p \in 1..Len(log) : log[p].unit # "wipe"
        /\ \A n \in store0.nodes :
              \E m \in store.nodes :
                 m.nid = n.nid /\ m.label = n.label /\ m.aid = n.aid
        /\ store0.rels \subseteq store.rels

\* a run without nuke completed on a store that held nodes and a
\* relationship, and wrote to it
C4_Witness ==
    /\ pc = "done"
    /\ ~nuke
    /\ store0.nodes # {}
    /\ store0.rels # {}
    /\ store # store0

\* C5: a completed run without nuke that follows a completed run on the
\* same source leaves the nodes and relationships as they were, with one
\* node per (label, identifier) and one relationship per (source
\* identifier, label, target identifier).
C5_RerunIdempotent ==
    (pc = "done" /\ prevDone.valid /\ ~nuke) =>
        /\ store.nodes = prevDone.st.nodes
        /\ store.rels = prevDone.st.rels
        /\ Cardinality(store.nodes) = Cardinality(prevDone.st.nodes)
        /\ Cardinality(store.rels) = Cardinality(prevDone.st.rels)
        /\ \A n, m \in store.nodes :
              (n.label = m.label /\ n.aid = m.aid) => n = m
        /\ Cardinality(RelShapes(store)) = Cardinality(store.rels)

\* the second of two completed runs without nuke over tables with edges
C5_Witness ==
    /\ pc = "done"
    /\ prevDone.valid
    /\ ~prevDone.nuke
    /\ ~nuke
    /\ store.rels # {}
    /\ NTables = 2

\* C6: after a completed run every edge target that is the identifier of a
\* source row resolves to that row's node, with its table's label and the
\* row's properties, and the run created no placeholder for it.
C6_TargetsResolveToRows ==
    pc = "done" =>
        \A t \in 1..NTables : \A j \in 1..Len(source[t].rows) :
            \A e \in {x \in SrcEdges :
                        x[edge_target] = source[t].rows[j].id} :
                /\ \E n \in store.nodes :
                      /\ n.label = source[t].name
                      /\ n.aid = e[edge_target]
                      /\ n.props = PropMap(SrcNodeList(t)[j])
                      /\ \E r \in store.rels :
                            /\ r.dst = n.nid
                            /\ r.label = e[edge_label]
                            /\ NodeById(store, r.src).aid = e[edge_source]
                /\ ~\E n \in store.nodes :
                      /\ n.label = NoLabel
                      /\ n.aid = e[edge_target]
                      /\ n.nid >= store0.nextId

\* a completed run in which a row of one table points at a row of the other
C6_Witness ==
    /\ pc = "done"
    /\ NTables = 2
    /\ \E e \in Range(SrcEdgeList(1)) : e[edge_target] = R3
    /\ \E n \in store.nodes : n.label = "Pets" /\ n.aid = R3

\* the store after the committed operations of the first n entries of the
\* log, replayed on st
RECURSIVE Replay(_, _)
Replay(st, n) ==
    IF n = 0 THEN st
    ELSE LET prev == Replay(st, n - 1)
             ev == log[n]
         IN  IF ev.ev # "commit" THEN prev
             ELSE IF ev.unit = "wipe" THEN nuke_query(prev)
             ELSE IF ev.unit = "nodes"
                  THEN batch_create_node(prev, ev.table,
                                         SrcNodeList(TableIndex(ev.table)))
             ELSE IF ev.unit = "constraint"
                  THEN create_constraint_for(prev, ev.table, airtable_id_col)
             ELSE batch_create_edge(prev, SrcEdgeList(TableIndex(ev.table)))

\* C10: a failed store write ends the run: the failure is the last store
\* operation of the run, no unit is begun twice, and the store holds the
\* committed units in full and nothing of the failed one.
C10_FailedWriteAborts ==
    InRun =>
        /\ store = Replay(store0, Len(log))
        /\ \A p \in 1..Len(log) : log[p].ev = "fail" => p = Len(log)
        /\ \A p, q \in 1..Len(log) :
              (log[p] = log[q] /\ log[p].ev = "begin") => p = q
        /\ (pc = "aborted" /\ exc = "StoreWriteError") =>
              (~tx.open /\ log[Len(log)].ev = "fail")

\* a node merge failed half way after earlier units were committed
C10_Witness ==
    /\ pc = "aborted"
    /\ exc = "StoreWriteError"
    /\ store # store0
    /\ \E p \in 1..Len(log) : log[p].ev = "commit" /\ log[p].unit = "constraint"
    /\ log[Len(log)] = Event("nodes", "Pets", "fail")

\* C11: when the fetch of any table fails the run aborts with the store as
\* it was: no wipe, constraint, node merge or edge merge has been executed,
\* and none is executed while tables are still being downloaded.
C11_FetchFailureLeavesStore ==
    /\ (pc = "aborted" /\ exc = "SourceFetchError") =>
            (store = store0 /\ log = <<>> /\ ~tx.open)
    /\ pc \in {"start", "fetch", "transform"} =>
            (store = store0 /\ log = <<>> /\ ~tx.open)

\* the fetch of the second table failed in a run with nuke on a store that
\* held nodes
C11_Witness ==
    /\ pc = "aborted"
    /\ exc = "SourceFetchError"
    /\ i = 2
    /\ Len(dfs) = 1
    /\ nuke
    /\ store.nodes # {}

\* C12: a row without an identifier ends the run with MalformedRecordError
\* in the transform of its table: the table never joins dfs, and nothing is
\* written to the store.
C12_NoIdAbortsInTransform ==
    \A t \in 1..NTables : \A j \in 1..Len(source[t].rows) :
        source[t].rows[j].id = NoIdColumn =>
            /\ Len(dfs) < t
            /\ log = <<>>
            /\ exc \in {"", "SourceFetchError", "MalformedRecordError"}

\* C13: a table with zero rows does not make the run raise.
C13_EmptyTableNoRaise ==
    \A t \in 1..NTables :
        Len(source[t].rows) = 0 =>
            ~(pc = "aborted" /\ exc = "AttributeError" /\ i = t)

\* the edges of edge_list that come from row id under the label k
EdgesFrom(id, k) ==
    {e \in Range(edge_list) : e[edge_source] = id /\ e[edge_label] = k}

\* C14: in the edge list of a table a scalar value of an Edge column gives
\* exactly one edge, to that value; a list gives one edge per element and an
\* empty list none.
C14_ScalarIsOneEdge ==
    pc = "edge_run" =>
        \A j \in 1..Len(dfs[i].df) :
            LET row == dfs[i].df[j]
            IN  \A n \in 1..Len(row.edges) :
                    LET it == row.edges[n]
                        got == {e[edge_target] : e \in EdgesFrom(row.id, it.k)}
                    IN  IF it.v.kind = "str" THEN got = {Text(it.v)}
                        ELSE got = Range(it.v.items)

\* C15: every node handed to the node merge is the row's props plus the row
\* identifier under '_aid', for the table's name as label; props never has
\* the key '_aid' itself, nor any key starting with '_'.
C15_NodeIsPropsPlusId ==
    pc = "node_run" =>
        /\ TableName = source[i].name
        /\ Len(node_list) = Len(source[i].rows)
        /\ \A j \in 1..Len(node_list) :
              LET row == SrcDf(i)[j]
              IN  /\ ~HasKey(row.props, airtable_id_col)
                  /\ \A k \in Keys(row.props) : ~IgnoredKey(k)
                  /\ PropMap(node_list[j]) =
                        PropMap(row.props) \cup
                        {[k |-> airtable_id_col, v |-> Str(row.id)]}
                  /\ Len(node_list[j]) = Len(row.props) + 1

\* the node list of a table with a row that carries a column named '_aid'
C15_Witness ==
    /\ pc = "node_run"
    /\ \E j \in 1..Len(source[i].rows) :
          /\ HasKey(source[i].rows[j].fields, airtable_id_col)
          /\ Get(node_list[j], airtable_id_col) = Str(source[i].rows[j].id)

(* ----------------------------- phases (C16) ---------------------------- *)
\* the phase of the run a position belongs to: fetch, transform, wipe,
\* node merges, edge merges, return; 7 is a run ended by an exception
Phase(p) ==
    CASE p = "start" -> 0
      [] p = "fetch" -> 1
      [] p = "transform" -> 2
      [] p \in {"session", "nuke"} -> 3
      [] p \in {"node_list", "node_run", "node_commit",
                "cons_run", "cons_commit"} -> 4
      [] p \in {"edge_list", "edge_run", "edge_commit"} -> 5
      [] p \in {"close", "done"} -> 6
      [] OTHER -> 7

Mutated == log # <<>> \/ tx.open \/ store # store0

\* C16: the phases of a run follow one another in the order fetch,
\* transform, wipe, node merges, edge merges, return, and no step goes
\* back to an earlier phase; every table is fetched before any table is
\* transformed, every table is transformed before anything is written to
\* the store, and a run is ended before its return only by a failure of
\* the source or of the store.
C16_PhaseOrder ==
    /\ [][run' = run => Phase(pc') >= Phase(pc)]_vars
    /\ [](pc = "fetch" => dfs = <<>>)
    /\ [](Mutated => (Len(dfs) = NTables /\ Phase(pc) >= 3))
    /\ [](pc = "aborted" => exc \in {"SourceFetchError", "StoreWriteError"})

(* ------------------------ dangling targets (C17) ----------------------- *)
\* the edges of the source whose target is the identifier of no source row
Dangling == {e \in SrcEdges : e[edge_target] \notin SrcRowIds}

\* C17: an edge whose target is the identifier of no row of any table does
\* not end the run. Once an edge merge has begun the run is ended only by
\* a failure of the store or by the TypeError of an Edge value that is a
\* number; a run that returned has committed the edge
\* batch of every table, and every such edge is in the store, from the
\* node of its source row to a node that carries the target identifier.
C17_DanglingTargetTolerated ==
    /\ (pc = "aborted" /\ \E p \in 1..Len(log) : log[p].unit = "edges") =>
            \/ /\ exc = "StoreWriteError"
               /\ log[Len(log)].unit = "edges"
               /\ log[Len(log)].ev = "fail"
            \/ /\ exc = "TypeError"
               /\ NotIterable(SrcDf(i))
    /\ pc = "done" =>
            /\ \A t \in 1..NTables :
                    \E p \in 1..Len(log) :
                        log[p] = Committed("edges", source[t].name)
            /\ \A e \in Dangling :
                    \E n \in store.nodes :
                        /\ n.aid = e[edge_target]
                        /\ \E r \in store.rels :
                              /\ r.dst = n.nid
                              /\ r.label = e[edge_label]
                              /\ NodeById(store, r.src).aid = e[edge_source]

\* a run over two tables that returned although a row of the first table
\* points at an identifier of no row: the run made a placeholder for it
\* and went on to commit the edges of the second table
C17_Witness ==
    /\ pc = "done"
    /\ NTables = 2
    /\ \E e \in Dangling \cap Range(SrcEdgeList(1)) :
          \E n \in store.nodes :
              /\ n.aid = e[edge_target]
              /\ n.label = NoLabel
              /\ n.nid >= store0.nextId
    /\ log[Len(log)] = Committed("edges", source[2].name)

(* --------------------------- createdTime (C18) ------------------------- *)
\* C18: _split_node_edge returns for every row, and the row it returns has
\* no createdTime, whatever the createdTime of the row was and also when
\* the row had none.
C18_CreatedTimeDiscarded ==
    probe.op = "split" =>
        /\ probe.out.raised = ""
        /\ probe.out.createdTime = NoColumn

(* ------------------------- no edge is lost (C19) ----------------------- *)
\* the Edge columns among the fields of a source row, as the splitter
\* classifies them, with a list as value
EdgeItems(fields) ==
    {n \in 1..Len(fields) : /\ keep_col_cond(fields[n].k)
                            /\ edge_col_cond(fields[n].k)
                            /\ fields[n].v.kind = "list"}

\* C19: every target of every Edge column of every row of the table is in
\* the table's edge list, as an edge from the row under the truncated
\* label of the column.
C19_NoEdgeLost ==
    pc = "edge_run" =>
        \A j \in 1..Len(source[i].rows) :
            LET row == source[i].rows[j]
            IN  \A n \in EdgeItems(row.fields) :
                    \A t \in Range(row.fields[n].v.items) :
                        \E e \in Range(edge_list) :
                            /\ e[edge_source] = row.id
                            /\ e[edge_target] = t
                            /\ e[edge_label] = format_edge_col(row.fields[n].k.s)

====
